---------------------------- MODULE Spec2Model ----------------------------
(***************************************************************************)
(* The example programs of the training-golang notes:                      *)
(*   ex1       Structs and Methods/ex1.go: sorting through mysort          *)
(*   template  the text/template if / if-else demo                         *)
(*   http      the two-route HTTP server                                   *)
(*   versionB  README "Using closures with goroutines", version B          *)
(* Every behaviour runs one of the programs (prog); the programs share no   *)
(* state.  Go indices are 0-based: At(d, i) is d[i].                         *)
(***************************************************************************)
EXTENDS Integers, Sequences, FiniteSets

VARIABLES
    prog,       \* the program that is run
    \* ---- ex1.go
    mainpc,     \* the demo main is at: "ints", "strings", "days", "exit"
    spc,        \* position inside the demo: idle, sort, check, print, panic
    data,       \* the collection being sorted (the slice's elements)
    orig,       \* history: the collection as it was handed to Sort
    pass,       \* Sort's outer loop variable
    i,          \* Sort's inner loop variable
    calls,      \* history: the Less/Swap calls made by the last step
    sortedRes,  \* result of the IsSorted call: "none", "true", "false", "panic"
    printed,    \* the collection printed last
    \* ---- template demo
    tpc,        \* index of main's next statement
    tmpl,       \* the templates: name -> [defined, root]
    stdout,     \* what has been written to os.Stdout, in order
    execLog,    \* history: the Execute calls, with whether the text was parsed
    \* ---- HTTP server
    hpc,        \* main's position: reg1, reg2, listen, serving, fatal
    mux,        \* DefaultServeMux: the set of registered [pattern, handler]
    req,        \* the request served last: [served, method, path]
    resp,       \* its response: [handler, status, body, log]
    \* ---- closures with goroutines, version B
    cpc,        \* main's position: loop, println, sleep, end
    ix,         \* the loop variable, one variable for the whole loop
    rng,        \* the index the range loop takes next
    gor,        \* the goroutines: index -> "none", "ready", "done"
    cout,       \* what has been printed, in order
    early,      \* history: a goroutine ran before the loop had finished
    \* ---- closures with goroutines, version C
    cCpc,       \* main's position: loop, println, sleep, end
    cIx,        \* the loop variable
    cRng,       \* the index the range loop takes next
    cGor,       \* the goroutines: index -> "none", "ready", "done"
    cArg,       \* the parameter ix of each goroutine, set by the go statement
    cOut,       \* what has been printed, in order
    cEarly,     \* history: a goroutine ran before the loop had finished
    \* ---- defer in a for-loop
    dPc,        \* the function's position: loop, after, returning, returned
    dFiles,     \* the number of files in the range
    dIdx,       \* the index of the file the loop takes next
    dOpen,      \* the files that are open
    dOpened,    \* history: the files that were opened successfully
    dDefers,    \* the deferred Close calls, in the order they were deferred
    \* ---- semaphore pattern
    sMain,      \* main's position: go, else, recv, done
    sGor,       \* the goroutine's position: none, work, send, done
    sGot,       \* the value main received from ch (0: none yet)
    sWorked,    \* history: the goroutine has done its work
    \* ---- protect(g)
    pPc,        \* protect's position: enter, call, deferred, returned, propagated
    pLog,       \* the log lines written, in order
    pPanic,     \* the panic in progress: [active, val]
    pG,         \* history: what g did
    pNilErr,    \* the runtime turns panic(nil) into a PanicNilError (Go 1.21 on)
    \* ---- hiding a variable by short declaration
    hPc,        \* position: decl, if, body, after
    hSomething, \* the condition of the if
    hVariant,   \* the statement of the body: "short" (:=) or "assign" (=)
    hScopes,    \* remember: the outer variable and the one of the if-body
    \* ---- simple timeout pattern
    toMain,     \* the selecting goroutine: go, select, gotCh, gotTimeout
    toTimer,    \* the timer goroutine: none, sleep, send, done
    toBuf,      \* the buffer of the channel timeout
    toSender,   \* a sender on ch: none, ready, sent
    \* ---- channel factory pump()
    puCons,     \* the consumer: call, recv, stopped
    puProd,     \* the producer goroutine: none, send
    puI,        \* the producer's i
    puGot       \* the values the consumer has received

sortVars == <<mainpc, spc, data, orig, pass, i, calls, sortedRes, printed>>

tmplVars == <<tpc, tmpl, stdout, execLog>>

httpVars == <<hpc, mux, req, resp>>

closVars == <<cpc, ix, rng, gor, cout, early>>

verCVars == <<cCpc, cIx, cRng, cGor, cArg, cOut, cEarly>>

deferVars == <<dPc, dFiles, dIdx, dOpen, dOpened, dDefers>>

semVars == <<sMain, sGor, sGot, sWorked>>

protVars == <<pPc, pLog, pPanic, pG, pNilErr>>

shadowVars == <<hPc, hSomething, hVariant, hScopes>>

timeoutVars == <<toMain, toTimer, toBuf, toSender>>

pumpVars == <<puCons, puProd, puI, puGot>>

\* The programs in two groups, for the frame conditions.
oldVars == <<sortVars, tmplVars, httpVars, closVars>>

newVars == <<verCVars, deferVars, semVars, protVars, shadowVars, timeoutVars, pumpVars>>

vars == <<prog, oldVars, newVars>>

\* Bound on the length of the drawn input collections.
MaxLen == 3

\* Bound on the length of the drawn request paths.
MaxPath == 5

\* Bound on the number of files of the defer loop.
MaxFiles == 3

(***************************************************************************)
(* Values.  A Go string is its byte sequence.                              *)
(***************************************************************************)
EmptyStr == <<>>
MondayStr == <<77, 111, 110, 100, 97, 121>>
FridayStr == <<70, 114, 105, 100, 97, 121>>
TuesdayStr == <<84, 117, 101, 115, 100, 97, 121>>
WednesdayStr == <<87, 101, 100, 110, 101, 115, 100, 97, 121>>
SundayStr == <<83, 117, 110, 100, 97, 121>>
ThursdayStr == <<84, 104, 117, 114, 115, 100, 97, 121>>
SaturdayStr == <<83, 97, 116, 117, 114, 100, 97, 121>>

IntsData == <<74, 59, 238, -784, 9845, 959, 905, 0, 0, 42, 7586, -5467984, 7586>>

StringsData == <<MondayStr, FridayStr, TuesdayStr, WednesdayStr, SundayStr,
                 ThursdayStr, EmptyStr, SaturdayStr>>

Day(n, s, l) == [num |-> n, shortName |-> s, longName |-> l]

Sunday == Day(6, "SUN", "Sunday")
Monday == Day(0, "MON", "Monday")
Tuesday == Day(1, "TUE", "Tuesday")
Wednesday == Day(2, "WED", "Wednesday")
Thursday == Day(3, "THU", "Thursday")
Friday == Day(4, "FRI", "Friday")
Saturday == Day(5, "SAT", "Saturday")

DaysData == <<Tuesday, Thursday, Wednesday, Sunday, Monday, Friday, Saturday>>

\* All sequences over S of length at most n.
SeqsUpTo(S, n) == UNION {[1..m -> S] : m \in 0..n}

\* The inputs of the three demos: the literal of the source, and every
\* collection of at most MaxLen elements over a few of its values.
IntInputs == {IntsData} \cup SeqsUpTo({-784, 0, 42}, MaxLen)

StringInputs == {StringsData} \cup SeqsUpTo({EmptyStr, SaturdayStr, SundayStr}, MaxLen)

DayInputs == {DaysData} \cup SeqsUpTo({Monday, Tuesday, Wednesday}, MaxLen)

(***************************************************************************)
(* Element access and the three operations of each collection type.        *)
(***************************************************************************)
At(d, n) == d[n + 1]

InRange(d, n) == n \in 0..(Len(d) - 1)

\* Go's < on strings: bytewise lexicographic.
RECURSIVE StrLess(_, _)
StrLess(x, y) ==
    IF y = <<>> THEN FALSE
    ELSE IF x = <<>> THEN TRUE
    ELSE IF Head(x) # Head(y) THEN Head(x) < Head(y)
    ELSE StrLess(Tail(x), Tail(y))

SwapAt(d, m, n) == [d EXCEPT ![m + 1] = d[n + 1], ![n + 1] = d[m + 1]]

IntSliceLen(d) == Len(d)
IntSliceLess(d, m, n) == At(d, m) < At(d, n)
IntSliceSwap(d, m, n) == SwapAt(d, m, n)

StringSliceLen(d) == Len(d)
StringSliceLess(d, m, n) == StrLess(At(d, m), At(d, n))
StringSliceSwap(d, m, n) == SwapAt(d, m, n)

\* Faulty variants of the dayArray methods, to test what the properties detect.
DayLenOffByOne(d) == Len(d) + 1
DayLessReversed(d, m, n) == At(d, m).num > At(d, n).num
DaySwapOverwrite(d, m, n) == [d EXCEPT ![m + 1] = d[n + 1]]
DaySwapNothing(d, m, n) == d

DayLen(d) == Len(d)
DayLess(d, m, n) == At(d, m).num < At(d, n).num
DaySwap(d, m, n) == [d EXCEPT ![m + 1] = d[n + 1], ![n + 1] = d[m + 1]]

\* Dispatch on the dynamic type behind the Sorter interface.
LenOf(kind, d) ==
    CASE kind = "ints" -> IntSliceLen(d)
      [] kind = "strings" -> StringSliceLen(d)
      [] kind = "days" -> DayLen(d)

LessOf(kind, d, m, n) ==
    CASE kind = "ints" -> IntSliceLess(d, m, n)
      [] kind = "strings" -> StringSliceLess(d, m, n)
      [] kind = "days" -> DayLess(d, m, n)

SwapOf(kind, d, m, n) ==
    CASE kind = "ints" -> IntSliceSwap(d, m, n)
      [] kind = "strings" -> StringSliceSwap(d, m, n)
      [] kind = "days" -> DaySwap(d, m, n)

Call(op, m, n) == [op |-> op, i |-> m, j |-> n]

\* mysort.IsSorted: walks i from Len-1 down to 1 and returns false at the
\* first Less(i, i-1); an index outside the slice panics.
RECURSIVE IsSortedFrom(_, _, _)
IsSortedFrom(kind, d, n) ==
    IF ~(n > 0) THEN "true"
    ELSE IF ~(InRange(d, n) /\ InRange(d, n - 1)) THEN "panic"
    ELSE IF LessOf(kind, d, n, n - 1) THEN "false"
    ELSE IsSortedFrom(kind, d, n - 1)

IsSorted(kind, d) == IsSortedFrom(kind, d, LenOf(kind, d) - 1)

(***************************************************************************)
(* ex1.go: main calls ints(), strings(), days(); each builds its            *)
(* collection, sorts it, checks it and prints it.                          *)
(***************************************************************************)
SortInit ==
    /\ mainpc = "ints"
    /\ spc = "idle"
    /\ data = <<>>
    /\ orig = <<>>
    /\ pass = 0
    /\ i = 0
    /\ calls = <<>>
    /\ sortedRes = "none"
    /\ printed = <<>>

\* The demo function builds its data and enters mysort.Sort.
EnterSort(d) ==
    /\ data' = d
    /\ orig' = d
    /\ spc' = "sort"
    /\ pass' = 1
    /\ i' = 0
    /\ calls' = <<>>
    /\ sortedRes' = "none"
    /\ UNCHANGED <<prog, newVars, tmplVars, httpVars, closVars, mainpc, printed>>

ints ==
    /\ prog = "ex1" /\ mainpc = "ints" /\ spc = "idle"
    /\ \E d \in IntInputs : EnterSort(d)

strings ==
    /\ prog = "ex1" /\ mainpc = "strings" /\ spc = "idle"
    /\ \E d \in StringInputs : EnterSort(d)

days ==
    /\ prog = "ex1" /\ mainpc = "days" /\ spc = "idle"
    /\ \E d \in DayInputs : EnterSort(d)

\* Sort, inner loop body: if data.Less(i+1, i) { data.Swap(i, i+1) }
SortInner ==
    /\ prog = "ex1" /\ spc = "sort"
    /\ pass < LenOf(mainpc, data)
    /\ i < LenOf(mainpc, data) - pass
    /\ IF ~(InRange(data, i + 1) /\ InRange(data, i))
       THEN /\ calls' = <<Call("Less", i + 1, i)>>
            /\ spc' = "panic"
            /\ UNCHANGED <<data, i>>
       ELSE /\ IF LessOf(mainpc, data, i + 1, i)
               THEN /\ data' = SwapOf(mainpc, data, i, i + 1)
                    /\ calls' = <<Call("Less", i + 1, i), Call("Swap", i, i + 1)>>
               ELSE /\ data' = data
                    /\ calls' = <<Call("Less", i + 1, i)>>
            /\ i' = i + 1
            /\ spc' = spc
    /\ UNCHANGED <<prog, newVars, tmplVars, httpVars, closVars, mainpc, orig, pass, sortedRes, printed>>

\* Sort, inner loop exhausted: next pass.
SortNextPass ==
    /\ prog = "ex1" /\ spc = "sort"
    /\ pass < LenOf(mainpc, data)
    /\ ~(i < LenOf(mainpc, data) - pass)
    /\ pass' = pass + 1
    /\ i' = 0
    /\ calls' = <<>>
    /\ UNCHANGED <<prog, newVars, tmplVars, httpVars, closVars, mainpc, spc, data, orig, sortedRes, printed>>

\* Sort, outer loop exhausted: Sort returns.
SortReturn ==
    /\ prog = "ex1" /\ spc = "sort"
    /\ ~(pass < LenOf(mainpc, data))
    /\ spc' = "check"
    /\ calls' = <<>>
    /\ UNCHANGED <<prog, newVars, tmplVars, httpVars, closVars, mainpc, data, orig, pass, i, sortedRes, printed>>

\* if !mysort.IsSorted(a) { panic("fail") }
CheckSorted ==
    /\ prog = "ex1" /\ spc = "check"
    /\ sortedRes' = IsSorted(mainpc, data)
    /\ spc' = IF sortedRes' = "true" THEN "print" ELSE "panic"
    /\ UNCHANGED <<prog, newVars, tmplVars, httpVars, closVars, mainpc, data, orig, pass, i, calls, printed>>

NextDemo(m) ==
    CASE m = "ints" -> "strings"
      [] m = "strings" -> "days"
      [] m = "days" -> "exit"

\* The demo prints the collection and returns to main; its locals are gone.
PrintSorted ==
    /\ prog = "ex1" /\ spc = "print"
    /\ printed' = data
    /\ spc' = "idle"
    /\ mainpc' = NextDemo(mainpc)
    /\ data' = <<>>
    /\ orig' = <<>>
    /\ pass' = 0
    /\ i' = 0
    /\ calls' = <<>>
    /\ sortedRes' = "none"
    /\ UNCHANGED <<prog, newVars, tmplVars, httpVars, closVars>>

SortNext ==
    \/ ints
    \/ strings
    \/ days
    \/ SortInner
    \/ SortNextPass
    \/ SortReturn
    \/ CheckSorted
    \/ PrintSorted

(***************************************************************************)
(* Properties of the sort demo.                                            *)
(***************************************************************************)
\* The ordering of each element type, on elements.
KeyLess(kind, x, y) ==
    CASE kind = "ints" -> x < y
      [] kind = "strings" -> StrLess(x, y)
      [] kind = "days" -> x.num < y.num

\* Non-decreasing order over all adjacent pairs.
Ordered(kind, d) == \A n \in 1..(Len(d) - 1) : ~KeyLess(kind, d[n + 1], d[n])

Range(d) == {d[n] : n \in DOMAIN d}

Count(d, e) == Cardinality({n \in DOMAIN d : d[n] = e})

\* Same multiset of elements.
IsPerm(d, e) ==
    /\ Len(d) = Len(e)
    /\ \A x \in Range(d) \cup Range(e) : Count(d, x) = Count(e, x)

HasDuplicate(d) == \E m, n \in DOMAIN d : m # n /\ d[m] = d[n]

InSortCall == prog = "ex1" /\ spc \in {"sort", "check", "print", "panic"}

\* C1: once Sort has returned, IsSorted on the same collection returns true,
\* so the demos never reach panic("fail").
Thm_C1 ==
    /\ (prog = "ex1" /\ spc \in {"check", "print"}) => IsSorted(mainpc, data) = "true"
    /\ sortedRes \in {"none", "true"}
    /\ spc # "panic"

\* C1 witness: days() has sorted a collection with a duplicate element that
\* was not in order, and IsSorted has returned true.
Wit_C1 ==
    /\ prog = "ex1" /\ mainpc = "days" /\ spc = "print"
    /\ sortedRes = "true"
    /\ data # orig
    /\ HasDuplicate(data)

\* C2: in every state during and after the sort the collection is a
\* permutation of the collection handed to Sort.
Thm_C2 == InSortCall => IsPerm(data, orig)

\* C2 witness: in the middle of sorting days the collection has been changed.
Wit_C2 ==
    /\ prog = "ex1" /\ mainpc = "days" /\ spc = "sort"
    /\ data # orig
    /\ Len(data) >= 3

\* C3: for an input already in non-decreasing order (which includes the
\* empty and the one-element input) Sort changes nothing and IsSorted
\* returns true afterwards.
Thm_C3 ==
    (InSortCall /\ Ordered(mainpc, orig)) =>
        /\ data = orig
        /\ \A n \in DOMAIN calls : calls[n].op # "Swap"
        /\ spc # "panic"
        /\ spc = "print" => sortedRes = "true"

\* C3 witness: days() was given an ordered collection of several elements
\* and has come through Sort and IsSorted.
Wit_C3 ==
    /\ prog = "ex1" /\ mainpc = "days" /\ spc = "print"
    /\ Len(orig) >= 2
    /\ Ordered("days", orig)
    /\ sortedRes = "true"

\* C4: IsSorted returns true exactly when no adjacent pair is out of order
\* (so always for lengths 0 and 1), and the IsSorted call leaves the
\* collection as it was.
Thm_C4 ==
    /\ [](InSortCall =>
            /\ (IsSorted(mainpc, data) = "true") <=> Ordered(mainpc, data)
            /\ (IsSorted(mainpc, data) = "false") <=> ~Ordered(mainpc, data)
            /\ Len(data) <= 1 => IsSorted(mainpc, data) = "true"
            /\ sortedRes = "true" => Ordered(mainpc, data))
    /\ [][spc = "check" => data' = data]_vars

\* C4 witness: the collection of days is out of order and IsSorted is false
\* on it.
Wit_C4 ==
    /\ prog = "ex1" /\ mainpc = "days" /\ spc = "sort"
    /\ Len(data) >= 2
    /\ IsSorted(mainpc, data) = "false"

\* C5: Sort passes only indices 0..Len-1 to Less and Swap, and every change
\* of the collection during Sort is a Swap(i, j) of the collection.
Thm_C5 ==
    /\ [](prog = "ex1" =>
            /\ spc # "panic"
            /\ \A n \in DOMAIN calls :
                  InRange(data, calls[n].i) /\ InRange(data, calls[n].j))
    /\ [][(spc = "sort" /\ data' # data) =>
            \E n \in DOMAIN calls' :
                /\ calls'[n].op = "Swap"
                /\ data' = SwapAt(data, calls'[n].i, calls'[n].j)]_vars

\* C5 witness: a step of sorting days called Less and then Swap.
Wit_C5 ==
    /\ prog = "ex1" /\ mainpc = "days" /\ spc = "sort"
    /\ Len(calls) = 2
    /\ calls[2].op = "Swap"

(***************************************************************************)
(* The template demo.  A template text is the sequence of its lexical      *)
(* items: literal text and the actions {{if p}}, {{else}}, {{end}}.         *)
(***************************************************************************)
Txt(str) == [k |-> "text", s |-> str]
IfTok(p) == [k |-> "if", s |-> p]
ElseTok == [k |-> "else", s |-> ""]
EndTok == [k |-> "end", s |-> ""]

EmptyText ==
    <<Txt("Empty pipeline if demo: "), IfTok(""), Txt(" Will not print. "),
      EndTok, Txt("\n")>>

WithValueText ==
    <<Txt("Non empty pipeline if demo: "), IfTok("anything"), Txt(" Will print. "),
      EndTok, Txt("\n")>>

IfElseText ==
    <<Txt("if-else demo: "), IfTok("anything"), Txt(" Print IF part. "),
      ElseTok, Txt(" Print ELSE part."), EndTok, Txt("\n")>>

TemplateNames == {"tEmpty", "tWithValue", "tIfElse"}

TextOf(t) ==
    CASE t = "tEmpty" -> EmptyText
      [] t = "tWithValue" -> WithValueText
      [] t = "tIfElse" -> IfElseText

\* main's statements, in order.
Stmt(op, t) == [op |-> op, t |-> t]

Stmts ==
    <<Stmt("New", "tEmpty"), Stmt("Execute", "tEmpty"), Stmt("Parse", "tEmpty"),
      Stmt("New", "tWithValue"), Stmt("Parse", "tWithValue"), Stmt("Execute", "tWithValue"),
      Stmt("New", "tIfElse"), Stmt("Parse", "tIfElse"), Stmt("Execute", "tIfElse")>>

\* template.New: a template with no parse tree.
NewTemplate == [defined |-> FALSE, root |-> <<>>]

\* Index of the first item of kind k in toks, 0 if there is none.
FirstOf(toks, k) ==
    IF \E n \in DOMAIN toks : toks[n].k = k
    THEN CHOOSE n \in DOMAIN toks :
            /\ toks[n].k = k
            /\ \A m \in 1..(n - 1) : toks[m].k # k
    ELSE 0

\* Parse: the list of nodes of a token sequence; an if action takes the
\* items up to its {{end}}, split at {{else}}.
RECURSIVE ParseList(_)
ParseList(toks) ==
    IF toks = <<>> THEN <<>>
    ELSE IF Head(toks).k = "text"
    THEN <<[k |-> "text", s |-> Head(toks).s]>> \o ParseList(Tail(toks))
    ELSE LET e == FirstOf(toks, "end")
             l == FirstOf(SubSeq(toks, 1, e), "else")
             thenEnd == IF l = 0 THEN e - 1 ELSE l - 1
         IN <<[k |-> "if", pipe |-> Head(toks).s,
               list |-> ParseList(SubSeq(toks, 2, thenEnd)),
               elseList |-> IF l = 0 THEN <<>> ELSE ParseList(SubSeq(toks, l + 1, e - 1))]>>
            \o ParseList(SubSeq(toks, e + 1, Len(toks)))

Parse(text) == [defined |-> TRUE, root |-> ParseList(text)]

\* Faulty variant of the truth of an if pipeline: every pipeline is true.
IsTrueAlways(p) == TRUE

\* Truth of the pipeline of {{if}}: a string is true when it is not empty.
IsTrue(p) == p # ""

\* Execute: the text written while walking the nodes.
RECURSIVE Walk(_)
Walk(list) ==
    IF list = <<>> THEN <<>>
    ELSE LET n == Head(list)
         IN (IF n.k = "text" THEN <<n.s>>
             ELSE IF IsTrue(n.pipe) THEN Walk(n.list) ELSE Walk(n.elseList))
            \o Walk(Tail(list))

\* Execute on a template without a parse tree returns an error and writes
\* nothing; main ignores the error.
Render(tm) == IF tm.defined THEN Walk(tm.root) ELSE <<>>

TemplateInit ==
    /\ tpc = 1
    /\ tmpl = [t \in TemplateNames |-> NewTemplate]
    /\ stdout = <<>>
    /\ execLog = <<>>

AtStmt(op) == prog = "template" /\ tpc \in DOMAIN Stmts /\ Stmts[tpc].op = op

\* t := template.New("template test")
TemplateNew ==
    /\ AtStmt("New")
    /\ tmpl' = [tmpl EXCEPT ![Stmts[tpc].t] = NewTemplate]
    /\ tpc' = tpc + 1
    /\ UNCHANGED <<prog, newVars, sortVars, httpVars, closVars, stdout, execLog>>

\* t = template.Must(t.Parse(text))
TemplateParse ==
    /\ AtStmt("Parse")
    /\ tmpl' = [tmpl EXCEPT ![Stmts[tpc].t] = Parse(TextOf(Stmts[tpc].t))]
    /\ tpc' = tpc + 1
    /\ UNCHANGED <<prog, newVars, sortVars, httpVars, closVars, stdout, execLog>>

\* t.Execute(os.Stdout, nil)
TemplateExecute ==
    /\ AtStmt("Execute")
    /\ stdout' = stdout \o Render(tmpl[Stmts[tpc].t])
    /\ execLog' = Append(execLog, [t |-> Stmts[tpc].t, parsed |-> tmpl[Stmts[tpc].t].defined])
    /\ tpc' = tpc + 1
    /\ UNCHANGED <<prog, newVars, sortVars, httpVars, closVars, tmpl>>

TemplateNext ==
    \/ TemplateNew
    \/ TemplateParse
    \/ TemplateExecute

TemplateDone == prog = "template" /\ tpc = Len(Stmts) + 1

Written(str) == \E n \in DOMAIN stdout : stdout[n] = str

Executions(t) == Cardinality({n \in DOMAIN execLog : execLog[n].t = t})

\* C6: every Execute call is made on a template whose text has been parsed,
\* no template is executed twice, and when main ends each of the three
\* templates has been rendered once.
Orig_C6 ==
    /\ \A n \in DOMAIN execLog : execLog[n].parsed
    /\ \A t \in TemplateNames : Executions(t) <= 1
    /\ TemplateDone =>
          /\ \A t \in TemplateNames : Executions(t) = 1
          /\ Written("Empty pipeline if demo: ")
          /\ Written("Non empty pipeline if demo: ")
          /\ Written("if-else demo: ")

\* C9: the if-body of the empty-pipeline template is never emitted, also
\* when the parsed template is rendered; the if-body of the non-empty
\* pipeline is emitted; of the if-else template the IF part is emitted and
\* the ELSE part is not.
Thm_C9 ==
    prog = "template" =>
        /\ ~Written(" Will not print. ")
        /\ ~Written(" Print ELSE part.")
        /\ tmpl["tEmpty"].defined =>
              Render(tmpl["tEmpty"]) = <<"Empty pipeline if demo: ", "\n">>
        /\ (\E n \in DOMAIN execLog : execLog[n].t = "tWithValue") =>
              Written(" Will print. ")
        /\ (\E n \in DOMAIN execLog : execLog[n].t = "tIfElse") =>
              Written(" Print IF part. ")
        /\ TemplateDone =>
              stdout = <<"Non empty pipeline if demo: ", " Will print. ", "\n",
                         "if-else demo: ", " Print IF part. ", "\n">>

\* C9 witness: main has ended, the empty-pipeline text is parsed and the
\* other two templates have been rendered.
Wit_C9 ==
    /\ TemplateDone
    /\ tmpl["tEmpty"].defined
    /\ Written(" Will print. ")
    /\ Written(" Print IF part. ")

(***************************************************************************)
(* The HTTP server.  A path is the sequence of its characters.  Requests   *)
(* are dispatched by the default ServeMux of net/http.                     *)
(***************************************************************************)
PathChars == {"/", ".", "s", "p", "y"}

\* The paths a request can carry to the mux: empty (an absolute-form or
\* authority-form request target without a path) or beginning with a slash.
Paths == {p \in SeqsUpTo(PathChars, MaxPath) : p = <<>> \/ p[1] = "/"}

Methods == {"GET", "CONNECT"}

RootPattern == <<"/">>

\* Faulty variant of the pattern Spy is registered under: a subtree pattern.
SpyPatternSubtree == <<"/", "s", "p", "y", "/">>

SpyPattern == <<"/", "s", "p", "y">>

\* The segments of a path between its slashes.
RECURSIVE SplitAcc(_, _, _)
SplitAcc(p, cur, acc) ==
    IF p = <<>> THEN Append(acc, cur)
    ELSE IF Head(p) = "/" THEN SplitAcc(Tail(p), <<>>, Append(acc, cur))
    ELSE SplitAcc(Tail(p), Append(cur, Head(p)), acc)

Split(p) == SplitAcc(p, <<>>, <<>>)

\* path.Clean of a rooted path: empty and "." segments are dropped, ".."
\* removes the segment before it.
RECURSIVE Resolve(_, _)
Resolve(segs, stack) ==
    IF segs = <<>> THEN stack
    ELSE IF Head(segs) = <<>> \/ Head(segs) = <<".">> THEN Resolve(Tail(segs), stack)
    ELSE IF Head(segs) = <<".", ".">>
    THEN Resolve(Tail(segs), IF stack = <<>> THEN <<>> ELSE SubSeq(stack, 1, Len(stack) - 1))
    ELSE Resolve(Tail(segs), Append(stack, Head(segs)))

RECURSIVE Join(_)
Join(stack) == IF stack = <<>> THEN <<>> ELSE <<"/">> \o Head(stack) \o Join(Tail(stack))

Clean(p) == LET j == Join(Resolve(Split(p), <<>>)) IN IF j = <<>> THEN <<"/">> ELSE j

\* net/http cleanPath: the canonical path, keeping a trailing slash.
CleanPath(p) ==
    IF p = <<>> THEN <<"/">>
    ELSE LET q == IF Head(p) = "/" THEN p ELSE <<"/">> \o p
             np == Clean(q)
         IN IF q[Len(q)] = "/" /\ np # <<"/">> THEN Append(np, "/") ELSE np

IsPrefix(a, b) == Len(a) <= Len(b) /\ SubSeq(b, 1, Len(a)) = a

\* ServeMux.match: an exact pattern first, else the longest pattern ending
\* in a slash that is a prefix of the path.
Match(m, path) ==
    IF \E e \in m : e.pattern = path
    THEN (CHOOSE e \in m : e.pattern = path).handler
    ELSE LET sub == {e \in m : e.pattern[Len(e.pattern)] = "/" /\ IsPrefix(e.pattern, path)}
         IN IF sub = {} THEN "NotFound"
            ELSE (CHOOSE e \in sub : \A f \in sub : Len(f.pattern) <= Len(e.pattern)).handler

\* ServeMux.shouldRedirect: path is not registered and path + "/" is.
ShouldRedirect(m, path) ==
    /\ path # <<>>
    /\ ~\E e \in m : e.pattern = path
    /\ \E e \in m : e.pattern = Append(path, "/")

\* ServeMux.Handler: the handler name and, for a redirect, its target.
Route(m, method, path) ==
    IF method = "CONNECT"
    THEN IF ShouldRedirect(m, path)
         THEN [handler |-> "Redirect", to |-> Append(path, "/")]
         ELSE [handler |-> Match(m, path), to |-> <<>>]
    ELSE LET cp == CleanPath(path)
         IN IF ShouldRedirect(m, cp) THEN [handler |-> "Redirect", to |-> Append(cp, "/")]
            ELSE IF cp # path THEN [handler |-> "Redirect", to |-> cp]
            ELSE [handler |-> Match(m, path), to |-> <<>>]

Response(h, st, b, l) == [handler |-> h, status |-> st, body |-> b, log |-> l]

\* Faulty variant of HelloServer: the whole path is echoed (Path[0:]).
HelloServerWholePath(path) ==
    Response("HelloServer", 200, <<"Hello, ">> \o path, <<"Inside HelloServer handler">>)

\* HelloServer: prints a line and writes "Hello, " + req.URL.Path[1:]; the
\* slice panics on an empty path.
HelloServer(path) ==
    IF Len(path) < 1
    THEN Response("HelloServer", 500, <<>>, <<"Inside HelloServer handler", "panic: slice bounds out of range">>)
    ELSE Response("HelloServer", 200, <<"Hello, ">> \o SubSeq(path, 2, Len(path)), <<"Inside HelloServer handler">>)

\* Spy writes a fixed body.
Spy(path) == Response("Spy", 200, <<"James Bond">>, <<>>)

\* The response of the server to a request.
ServeHTTP(m, method, path) ==
    LET r == Route(m, method, path)
    IN CASE r.handler = "HelloServer" -> HelloServer(path)
         [] r.handler = "Spy" -> Spy(path)
         [] r.handler = "Redirect" -> Response("Redirect", 301, r.to, <<>>)
         [] OTHER -> Response("NotFound", 404, <<>>, <<>>)

NoRequest == [served |-> FALSE, method |-> "", path |-> <<>>]

NoResponse == Response("", 0, <<>>, <<>>)

HttpInit ==
    /\ hpc = "reg1"
    /\ mux = {}
    /\ req = NoRequest
    /\ resp = NoResponse

\* http.HandleFunc("/", HelloServer)
RegisterHello ==
    /\ prog = "http" /\ hpc = "reg1"
    /\ mux' = mux \cup {[pattern |-> RootPattern, handler |-> "HelloServer"]}
    /\ hpc' = "reg2"
    /\ UNCHANGED <<prog, newVars, sortVars, tmplVars, closVars, req, resp>>

\* http.HandleFunc("/spy", Spy)
RegisterSpy ==
    /\ prog = "http" /\ hpc = "reg2"
    /\ mux' = mux \cup {[pattern |-> SpyPattern, handler |-> "Spy"]}
    /\ hpc' = "listen"
    /\ UNCHANGED <<prog, newVars, sortVars, tmplVars, closVars, req, resp>>

\* err := http.ListenAndServe(...): the server serves, or the call fails
\* and main ends in log.Fatal.
ListenAndServe ==
    /\ prog = "http" /\ hpc = "listen"
    /\ \E ok \in BOOLEAN : hpc' = IF ok THEN "serving" ELSE "fatal"
    /\ UNCHANGED <<prog, newVars, sortVars, tmplVars, closVars, mux, req, resp>>

\* The server answers a request.
Serve ==
    /\ prog = "http" /\ hpc = "serving"
    /\ ~req.served
    /\ \E method \in Methods, path \in Paths :
          /\ req' = [served |-> TRUE, method |-> method, path |-> path]
          /\ resp' = ServeHTTP(mux, method, path)
    /\ UNCHANGED <<prog, newVars, sortVars, tmplVars, closVars, hpc, mux>>

\* The response has been sent; the server waits for the next request.
Finish ==
    /\ prog = "http" /\ hpc = "serving"
    /\ req.served
    /\ req' = NoRequest
    /\ resp' = NoResponse
    /\ UNCHANGED <<prog, newVars, sortVars, tmplVars, closVars, hpc, mux>>

HttpNext ==
    \/ RegisterHello
    \/ RegisterSpy
    \/ ListenAndServe
    \/ Serve
    \/ Finish

\* A path in canonical form: it begins with a slash and has no empty, "."
\* or ".." segment (a trailing slash apart).
IsCanonical(p) ==
    /\ p # <<>>
    /\ Head(p) = "/"
    /\ LET segs == Split(p)
       IN /\ \A n \in 2..(Len(segs) - 1) : segs[n] # <<>>
          /\ \A n \in 2..Len(segs) : segs[n] # <<".">> /\ segs[n] # <<".", ".">>

Registered ==
    mux = {[pattern |-> <<"/">>, handler |-> "HelloServer"],
           [pattern |-> <<"/", "s", "p", "y">>, handler |-> "Spy"]}

\* C7 as stated: /spy is answered by Spy with "James Bond", every other path
\* by HelloServer, and both handlers are registered before the server
\* listens.
Orig_C7 ==
    /\ hpc \in {"listen", "serving", "fatal"} => Registered
    /\ req.served =>
          IF req.path = <<"/", "s", "p", "y">>
          THEN resp.handler = "Spy" /\ resp.body = <<"James Bond">>
          ELSE resp.handler = "HelloServer"

\* C7 amended: /spy is answered by Spy with "James Bond" whatever the
\* method; every other path in canonical form is answered by HelloServer;
\* both handlers are registered before the server listens.
Thm_C7 ==
    /\ hpc \in {"listen", "serving", "fatal"} => Registered
    /\ req.served => hpc = "serving"
    /\ req.served =>
          IF req.path = <<"/", "s", "p", "y">>
          THEN resp.handler = "Spy" /\ resp.body = <<"James Bond">> /\ resp.status = 200
          ELSE IsCanonical(req.path) => resp.handler = "HelloServer"

\* C7 witness: /spy/ has been answered by HelloServer.
Wit_C7 ==
    /\ req.served
    /\ req.path = <<"/", "s", "p", "y", "/">>
    /\ resp.handler = "HelloServer"

\* C8: a request routed to HelloServer has a non-empty path, the slice does
\* not panic, and the body is "Hello, " followed by the path without its
\* first character.
Thm_C8 ==
    (req.served /\ resp.handler = "HelloServer") =>
        /\ Len(req.path) >= 1
        /\ resp.status = 200
        /\ Len(resp.body) = Len(req.path)
        /\ resp.body[1] = "Hello, "
        /\ \A n \in 2..Len(req.path) : resp.body[n] = req.path[n]
        /\ req.path = <<"/">> => resp.body = <<"Hello, ">>

\* C8 witness: HelloServer has answered /spyy with "Hello, spyy".
Wit_C8 ==
    /\ req.served
    /\ req.path = <<"/", "s", "p", "y", "y">>
    /\ resp.handler = "HelloServer"
    /\ resp.body = <<"Hello, ", "s", "p", "y", "y">>

(***************************************************************************)
(* README, "Using closures with goroutines", version B: the loop starts    *)
(* one goroutine per index; each closure prints the loop variable ix.      *)
(***************************************************************************)
\* var values = [5]int{...}: the number of elements.
NumValues == 5

Indices == 0..(NumValues - 1)

\* fmt's decimal form of a one-digit integer.
Itoa(n) == <<"0", "1", "2", "3", "4", "5", "6", "7", "8", "9">>[n + 1]

\* Faulty variant of the read of the closure: each goroutine has a copy of its own index.
ReadIxOwnCopy(g) == g

\* The value the closure of goroutine g reads: the closure is bound to the
\* one variable ix of the loop.
ReadIx(g) == ix

ClosureInit ==
    /\ cpc = "loop"
    /\ ix = 0
    /\ rng = 0
    /\ gor = [g \in Indices |-> "none"]
    /\ cout = <<>>
    /\ early = FALSE

\* for ix := range values { go func() { ... }() }: one iteration.
LoopIter ==
    /\ prog = "versionB" /\ cpc = "loop"
    /\ rng < NumValues
    /\ ix' = rng
    /\ gor' = [gor EXCEPT ![rng] = "ready"]
    /\ rng' = rng + 1
    /\ UNCHANGED <<prog, newVars, sortVars, tmplVars, httpVars, cpc, cout, early>>

\* The range is exhausted; ix keeps the last index.
LoopExit ==
    /\ prog = "versionB" /\ cpc = "loop"
    /\ ~(rng < NumValues)
    /\ cpc' = "println"
    /\ UNCHANGED <<prog, newVars, sortVars, tmplVars, httpVars, ix, rng, gor, cout, early>>

\* fmt.Println()
Println ==
    /\ prog = "versionB" /\ cpc = "println"
    /\ cout' = Append(cout, "\n")
    /\ cpc' = "sleep"
    /\ UNCHANGED <<prog, newVars, sortVars, tmplVars, httpVars, ix, rng, gor, early>>

\* time.Sleep(5e9) returns.
SleepReturn ==
    /\ prog = "versionB" /\ cpc = "sleep"
    /\ cpc' = "end"
    /\ UNCHANGED <<prog, newVars, sortVars, tmplVars, httpVars, ix, rng, gor, cout, early>>

\* Goroutine g runs: fmt.Print(ix, " ")
GoPrint(g) ==
    /\ prog = "versionB" /\ gor[g] = "ready"
    /\ cout' = cout \o <<Itoa(ReadIx(g)), " ">>
    /\ gor' = [gor EXCEPT ![g] = "done"]
    /\ early' = (early \/ rng < NumValues)
    /\ UNCHANGED <<prog, newVars, sortVars, tmplVars, httpVars, cpc, ix, rng>>

GoRun == \E g \in Indices : GoPrint(g)

ClosureNext ==
    \/ LoopIter
    \/ LoopExit
    \/ Println
    \/ SleepReturn
    \/ GoRun

NotNewline(str) == str # "\n"

\* What the goroutines have printed.
GoOutput == SelectSeq(cout, NotNewline)

AllDone == \A g \in Indices : gor[g] = "done"

\* C10: when no goroutine ran before the loop had finished, every goroutine
\* prints the last index, and once all five have run the output is
\* 4 4 4 4 4.
Thm_C10 ==
    (prog = "versionB" /\ ~early) =>
        /\ \A n \in DOMAIN GoOutput : GoOutput[n] \in {"4", " "}
        /\ AllDone => GoOutput = <<"4", " ", "4", " ", "4", " ", "4", " ", "4", " ">>

\* C10 witness: all five goroutines have run, none of them before the loop
\* had finished.
Wit_C10 ==
    /\ prog = "versionB"
    /\ ~early
    /\ AllDone
    /\ Len(GoOutput) = 10

(***************************************************************************)
(* Version C: the index is passed to the goroutine as a parameter.         *)
(***************************************************************************)
\* The other programs' variables, which version C leaves alone.
exceptVerC == <<oldVars, deferVars, semVars, protVars, shadowVars, timeoutVars, pumpVars>>

\* Faulty variant of the parameter: the goroutine reads the loop variable.
ParamIxShared(g) == cIx

\* The value goroutine g prints: its own parameter ix, evaluated by the go
\* statement.
ParamIx(g) == cArg[g]

VersionCInit ==
    /\ cCpc = "loop"
    /\ cIx = 0
    /\ cRng = 0
    /\ cGor = [g \in Indices |-> "none"]
    /\ cArg = [g \in Indices |-> 0]
    /\ cOut = <<>>
    /\ cEarly = FALSE

\* for ix := range values { go func(ix int) { ... }(ix) }: one iteration.
LoopIterC ==
    /\ prog = "versionC" /\ cCpc = "loop"
    /\ cRng < NumValues
    /\ cIx' = cRng
    /\ cArg' = [cArg EXCEPT ![cRng] = cIx']
    /\ cGor' = [cGor EXCEPT ![cRng] = "ready"]
    /\ cRng' = cRng + 1
    /\ UNCHANGED <<prog, exceptVerC, cCpc, cOut, cEarly>>

LoopExitC ==
    /\ prog = "versionC" /\ cCpc = "loop"
    /\ ~(cRng < NumValues)
    /\ cCpc' = "println"
    /\ UNCHANGED <<prog, exceptVerC, cIx, cRng, cGor, cArg, cOut, cEarly>>

\* fmt.Println()
PrintlnC ==
    /\ prog = "versionC" /\ cCpc = "println"
    /\ cOut' = Append(cOut, "\n")
    /\ cCpc' = "sleep"
    /\ UNCHANGED <<prog, exceptVerC, cIx, cRng, cGor, cArg, cEarly>>

\* time.Sleep(5e9) returns.
SleepReturnC ==
    /\ prog = "versionC" /\ cCpc = "sleep"
    /\ cCpc' = "end"
    /\ UNCHANGED <<prog, exceptVerC, cIx, cRng, cGor, cArg, cOut, cEarly>>

\* Goroutine g runs: fmt.Print(ix, " ") with its parameter.
GoPrintC(g) ==
    /\ prog = "versionC" /\ cGor[g] = "ready"
    /\ cOut' = cOut \o <<Itoa(ParamIx(g)), " ">>
    /\ cGor' = [cGor EXCEPT ![g] = "done"]
    /\ cEarly' = (cEarly \/ cRng < NumValues)
    /\ UNCHANGED <<prog, exceptVerC, cCpc, cIx, cRng, cArg>>

GoRunC == \E g \in Indices : GoPrintC(g)

VersionCNext ==
    \/ LoopIterC
    \/ LoopExitC
    \/ PrintlnC
    \/ SleepReturnC
    \/ GoRunC

\* How often str has been printed by version C.
TimesPrintedC(str) == Cardinality({n \in DOMAIN cOut : cOut[n] = str})

DoneC == {g \in Indices : cGor[g] = "done"}

\* C11: under every interleaving a goroutine that has run has printed its
\* own index once and no other goroutine has printed it; once all five have
\* run each index 0..4 is printed exactly once.
Thm_C11 ==
    prog = "versionC" =>
        /\ \A g \in Indices :
              TimesPrintedC(Itoa(g)) = IF g \in DoneC THEN 1 ELSE 0
        /\ TimesPrintedC(" ") = Cardinality(DoneC)

\* C11 witness: all five goroutines have run, some of them during the loop,
\* and the indices are not printed in ascending order.
Wit_C11 ==
    /\ prog = "versionC"
    /\ DoneC = Indices
    /\ cEarly
    /\ cOut[1] = "3"

(***************************************************************************)
(* README, "Using defer for closing a file in the wrong scope": a function *)
(* opens each file of a range in a loop and defers its Close.              *)
(***************************************************************************)
\* The other programs' variables, which the defer loop leaves alone.
exceptDefer == <<oldVars, verCVars, semVars, protVars, shadowVars, timeoutVars, pumpVars>>

\* Faulty variant: deferred calls also run when a loop iteration ends.
RunsDeferredAtScopeEnd(pc) == pc \in {"loop", "returning"}

\* Deferred calls run when the function returns, and only then.
RunsDeferred(pc) == pc = "returning"

DeferInit ==
    /\ dPc = "loop"
    /\ dFiles \in (IF prog = "deferLoop" THEN 0..MaxFiles ELSE {0})
    /\ dIdx = 0
    /\ dOpen = {}
    /\ dOpened = {}
    /\ dDefers = <<>>

\* One iteration: os.Open(file); on an error the function returns, else
\* the Close of f is deferred and f is processed.
DeferIter ==
    /\ prog = "deferLoop" /\ dPc = "loop"
    /\ dIdx < dFiles
    /\ \E ok \in BOOLEAN :
          IF ok
          THEN /\ dOpen' = dOpen \cup {dIdx}
               /\ dOpened' = dOpened \cup {dIdx}
               /\ dDefers' = Append(dDefers, dIdx)
               /\ dIdx' = dIdx + 1
               /\ dPc' = dPc
          ELSE /\ dPc' = "returning"
               /\ UNCHANGED <<dOpen, dOpened, dDefers, dIdx>>
    /\ UNCHANGED <<prog, exceptDefer, dFiles>>

\* The range of files is exhausted: the loop ends.
DeferLoopEnd ==
    /\ prog = "deferLoop" /\ dPc = "loop"
    /\ ~(dIdx < dFiles)
    /\ dPc' = "after"
    /\ UNCHANGED <<prog, exceptDefer, dFiles, dIdx, dOpen, dOpened, dDefers>>

\* The function reaches its return.
DeferReturn ==
    /\ prog = "deferLoop" /\ dPc = "after"
    /\ dPc' = "returning"
    /\ UNCHANGED <<prog, exceptDefer, dFiles, dIdx, dOpen, dOpened, dDefers>>

\* A deferred f.Close() runs, last deferred first.
RunDeferred ==
    /\ prog = "deferLoop" /\ RunsDeferred(dPc)
    /\ dDefers # <<>>
    /\ dOpen' = dOpen \ {dDefers[Len(dDefers)]}
    /\ dDefers' = SubSeq(dDefers, 1, Len(dDefers) - 1)
    /\ UNCHANGED <<prog, exceptDefer, dFiles, dIdx, dOpened, dPc>>

\* All deferred calls have run: the function has returned.
DeferReturned ==
    /\ prog = "deferLoop" /\ dPc = "returning"
    /\ dDefers = <<>>
    /\ dPc' = "returned"
    /\ UNCHANGED <<prog, exceptDefer, dFiles, dIdx, dOpen, dOpened, dDefers>>

DeferNext ==
    \/ DeferIter
    \/ DeferLoopEnd
    \/ DeferReturn
    \/ RunDeferred
    \/ DeferReturned

\* C12: during the loop and when it has finished every successfully opened
\* file is still open; a file is closed only while the function returns
\* (after the loop or at the early return on an open error), and when it has
\* returned every file is closed.
Thm_C12 ==
    /\ [](prog = "deferLoop" =>
            /\ dPc \in {"loop", "after"} => dOpen = dOpened
            /\ dPc \in {"loop", "after"} => Cardinality(dOpen) = Len(dDefers)
            /\ dPc = "returned" => dOpen = {})
    /\ [][dOpen' # dOpen /\ dOpen' \subseteq dOpen =>
            dPc = "returning" /\ dPc' = "returning"]_vars

\* C12 witness: the loop has finished with several files still open.
Wit_C12 ==
    /\ prog = "deferLoop"
    /\ dPc = "after"
    /\ Cardinality(dOpen) >= 2
    /\ dOpen = dOpened

(***************************************************************************)
(* "Using a channel to let the main program wait": main starts a goroutine *)
(* that signals on the unbuffered channel ch when it is done; main         *)
(* receives from ch.                                                       *)
(***************************************************************************)
\* The other programs' variables, which the semaphore program leaves alone.
exceptSem == <<oldVars, verCVars, deferVars, protVars, shadowVars, timeoutVars, pumpVars>>

\* Faulty variant: the send proceeds without a receiver, as on a buffered
\* channel.
SendProceedsBuffered(receiver) == TRUE

\* ch := make(chan int) is unbuffered: the send ch <- 1 proceeds only when
\* the receiver is at <-ch.
SendProceeds(receiver) == receiver = "recv"

SemInit ==
    /\ sMain = "go"
    /\ sGor = "none"
    /\ sGot = 0
    /\ sWorked = FALSE

\* go func() { ... }()
SemGo ==
    /\ prog = "semaphore" /\ sMain = "go"
    /\ sMain' = "else"
    /\ sGor' = "work"
    /\ UNCHANGED <<prog, exceptSem, sGot, sWorked>>

\* The goroutine: doSomething
SemDoSomething ==
    /\ prog = "semaphore" /\ sGor = "work"
    /\ sWorked' = TRUE
    /\ sGor' = "send"
    /\ UNCHANGED <<prog, exceptSem, sMain, sGot>>

\* main: doSomethingElseForAWhile()
SemDoSomethingElse ==
    /\ prog = "semaphore" /\ sMain = "else"
    /\ sMain' = "recv"
    /\ UNCHANGED <<prog, exceptSem, sGor, sGot, sWorked>>

\* ch <- 1 meets <-ch: the value passes and both sides go on.
SemSignal ==
    /\ prog = "semaphore" /\ sGor = "send"
    /\ SendProceeds(sMain)
    /\ sGor' = "done"
    /\ IF sMain = "recv"
       THEN sMain' = "done" /\ sGot' = 1
       ELSE UNCHANGED <<sMain, sGot>>
    /\ UNCHANGED <<prog, exceptSem, sWorked>>

SemNext ==
    \/ SemGo
    \/ SemDoSomething
    \/ SemDoSomethingElse
    \/ SemSignal

\* C13: main is past <-ch only when the goroutine has done its work and is
\* past its send; neither side passes its channel operation unless the
\* other is at its own; and both eventually are past it.
Thm_C13 ==
    /\ [](prog = "semaphore" =>
            /\ sMain = "done" => (sGor = "done" /\ sWorked /\ sGot = 1)
            /\ sGor = "done" => sMain = "done")
    /\ [][(sMain' # sMain /\ sMain' = "done") \/ (sGor' # sGor /\ sGor' = "done") =>
            (sMain = "recv" /\ sGor = "send")]_vars
    /\ (prog = "semaphore" => <>(sMain = "done" /\ sGor = "done"))

\* C13 witness: main has received the signal of the goroutine.
Wit_C13 ==
    /\ prog = "semaphore"
    /\ sMain = "done"
    /\ sGor = "done"
    /\ sGot = 1

(***************************************************************************)
(* protect(g): logs "start", calls g, and its deferred function logs       *)
(* "done" and recovers a panic of g.                                       *)
(***************************************************************************)
\* The other programs' variables, which protect leaves alone.
exceptProtect == <<oldVars, verCVars, deferVars, semVars, shadowVars, timeoutVars, pumpVars>>

\* What g does: it returns, panics with a value, or calls panic(nil).
GOutcomes == {"return", "panic", "panicNil"}

NotPanicking == [active |-> FALSE, val |-> "nil"]

Panicking(v) == [active |-> TRUE, val |-> v]

LogLine(msg, arg) == [msg |-> msg, arg |-> arg]

\* Faulty variant of recover: it returns nil and the panic goes on, as when
\* recover is not called by the deferred function itself.
RecoverNothing(p, nilErr) == [x |-> "nil", after |-> p]

\* recover() in the deferred function: nil when the goroutine is not
\* panicking; else the panic value, and the panic stops.  panic(nil) gives a
\* *runtime.PanicNilError from Go 1.21 on and nil before.
Recover(p, nilErr) ==
    IF ~p.active THEN [x |-> "nil", after |-> p]
    ELSE IF p.val = "nil"
    THEN [x |-> IF nilErr THEN "PanicNilError" ELSE "nil", after |-> NotPanicking]
    ELSE [x |-> p.val, after |-> NotPanicking]

ProtectInit ==
    /\ pPc = "enter"
    /\ pLog = <<>>
    /\ pPanic = NotPanicking
    /\ pG = "none"
    /\ pNilErr \in (IF prog = "protect" THEN BOOLEAN ELSE {FALSE})

\* defer func() {...}(); log.Println("start")
ProtectStart ==
    /\ prog = "protect" /\ pPc = "enter"
    /\ pLog' = Append(pLog, LogLine("start", ""))
    /\ pPc' = "call"
    /\ UNCHANGED <<prog, exceptProtect, pPanic, pG, pNilErr>>

\* g(): returns or panics.
ProtectCall ==
    /\ prog = "protect" /\ pPc = "call"
    /\ \E o \in GOutcomes :
          /\ pG' = o
          /\ pPanic' = CASE o = "return" -> NotPanicking
                         [] o = "panic" -> Panicking("boom")
                         [] o = "panicNil" -> Panicking("nil")
    /\ pPc' = "deferred"
    /\ UNCHANGED <<prog, exceptProtect, pLog, pNilErr>>

\* The deferred function: log.Println("done"); if x := recover(); x != nil
\* { log.Printf("run time panic: %v", x) }.  protect then returns, or the
\* panic goes on to its caller.
ProtectDeferred ==
    /\ prog = "protect" /\ pPc = "deferred"
    /\ LET r == Recover(pPanic, pNilErr)
       IN /\ pLog' = IF r.x # "nil"
                     THEN pLog \o <<LogLine("done", ""), LogLine("run time panic: %v", r.x)>>
                     ELSE Append(pLog, LogLine("done", ""))
          /\ pPanic' = r.after
          /\ pPc' = IF r.after.active THEN "propagated" ELSE "returned"
    /\ UNCHANGED <<prog, exceptProtect, pG, pNilErr>>

ProtectNext ==
    \/ ProtectStart
    \/ ProtectCall
    \/ ProtectDeferred

ProtectEnded == prog = "protect" /\ pPc \in {"returned", "propagated"}

StartDone == <<LogLine("start", ""), LogLine("done", "")>>

\* The log lines in order: "start" before g runs, "done" after it.
StartThenDone ==
    /\ (prog = "protect" /\ pPc \in {"call", "deferred"}) => pLog = <<LogLine("start", "")>>
    /\ ProtectEnded => (Len(pLog) >= 2 /\ SubSeq(pLog, 1, 2) = StartDone)

\* C14 as stated: "start" is logged before g runs and "done" after it; every
\* panic of g is recovered and logged after "done" and does not propagate;
\* without a panic no panic message is logged.
Orig_C14 ==
    /\ StartThenDone
    /\ pPc # "propagated"
    /\ (ProtectEnded /\ pG = "return") => pLog = StartDone
    /\ (ProtectEnded /\ pG # "return") =>
          (Len(pLog) = 3 /\ pLog[3].msg = "run time panic: %v")

\* C14 amended: as stated, except that a panic is logged when recover
\* returns a non-nil value: panic(nil) on a runtime before Go 1.21 is
\* recovered without a log line.
Thm_C14 ==
    /\ StartThenDone
    /\ pPc # "propagated"
    /\ (ProtectEnded /\ pG = "return") => pLog = StartDone
    /\ (ProtectEnded /\ pG = "panic") =>
          pLog = Append(StartDone, LogLine("run time panic: %v", "boom"))
    /\ (ProtectEnded /\ pG = "panicNil") =>
          pLog = IF pNilErr
                 THEN Append(StartDone, LogLine("run time panic: %v", "PanicNilError"))
                 ELSE StartDone

\* C14 witness: g has panicked, and protect has returned with the panic
\* logged after "done".
Wit_C14 ==
    /\ prog = "protect" /\ pPc = "returned"
    /\ pG = "panic"
    /\ Len(pLog) = 3
    /\ pLog[3] = LogLine("run time panic: %v", "boom")

(***************************************************************************)
(* README, "Hiding a variable by misusing short declaration":              *)
(*   var remember bool = false; if something { remember := true }          *)
(* and the same with the assignment remember = true.                       *)
(***************************************************************************)
\* The other programs' variables, which the snippet leaves alone.
exceptShadow == <<oldVars, verCVars, deferVars, semVars, protVars, timeoutVars, pumpVars>>

NoInner == [exists |-> FALSE, val |-> FALSE]

Scopes(outer, inner) == [outer |-> outer, inner |-> inner]

\* Faulty variant of := : it assigns to the variable of the outer scope.
ShortDeclareAssigns(sc, v) == Scopes(v, sc.inner)

\* remember := v in the if-body declares a new variable in the scope of the
\* body.
ShortDeclare(sc, v) == Scopes(sc.outer, [exists |-> TRUE, val |-> v])

\* remember = v assigns to the variable the name refers to: the innermost
\* declaration.
Assign(sc, v) ==
    IF sc.inner.exists
    THEN Scopes(sc.outer, [exists |-> TRUE, val |-> v])
    ELSE Scopes(v, sc.inner)

\* The value the name remember refers to.
Remember(sc) == IF sc.inner.exists THEN sc.inner.val ELSE sc.outer

ShadowInit ==
    /\ hPc = "decl"
    /\ hSomething \in (IF prog = "shadow" THEN BOOLEAN ELSE {FALSE})
    /\ hVariant \in (IF prog = "shadow" THEN {"short", "assign"} ELSE {"short"})
    /\ hScopes = Scopes(FALSE, NoInner)

\* var remember bool = false
ShadowDeclare ==
    /\ prog = "shadow" /\ hPc = "decl"
    /\ hScopes' = Scopes(FALSE, NoInner)
    /\ hPc' = "if"
    /\ UNCHANGED <<prog, exceptShadow, hSomething, hVariant>>

\* if something { remember := true }, or { remember = true }: the body.
ShadowBody ==
    /\ prog = "shadow" /\ hPc = "if"
    /\ hSomething
    /\ hScopes' = IF hVariant = "short" THEN ShortDeclare(hScopes, TRUE)
                  ELSE Assign(hScopes, TRUE)
    /\ hPc' = "body"
    /\ UNCHANGED <<prog, exceptShadow, hSomething, hVariant>>

\* The condition is false: the body is skipped.
ShadowSkip ==
    /\ prog = "shadow" /\ hPc = "if"
    /\ ~hSomething
    /\ hPc' = "after"
    /\ UNCHANGED <<prog, exceptShadow, hSomething, hVariant, hScopes>>

\* The closing brace: the scope of the body ends.
ShadowClose ==
    /\ prog = "shadow" /\ hPc = "body"
    /\ hScopes' = Scopes(hScopes.outer, NoInner)
    /\ hPc' = "after"
    /\ UNCHANGED <<prog, exceptShadow, hSomething, hVariant>>

ShadowNext ==
    \/ ShadowDeclare
    \/ ShadowBody
    \/ ShadowSkip
    \/ ShadowClose

\* C15: with remember := true the outer variable is never changed and is
\* false after the closing brace whatever the condition, while inside the
\* body remember is true; with remember = true it is true after the if
\* exactly when the condition held.
Thm_C15 ==
    prog = "shadow" =>
        /\ hVariant = "short" =>
              /\ hScopes.outer = FALSE
              /\ hPc = "body" => Remember(hScopes) = TRUE
              /\ hPc = "after" => Remember(hScopes) = FALSE
        /\ (hVariant = "assign" /\ hPc = "after") =>
              (Remember(hScopes) = hSomething /\ hScopes.outer = hSomething)

\* C15 witness: the condition held, remember := true was executed, and
\* after the closing brace remember is false.
Wit_C15 ==
    /\ prog = "shadow" /\ hVariant = "short"
    /\ hSomething
    /\ hPc = "after"
    /\ Remember(hScopes) = FALSE

(***************************************************************************)
(* part_000, "Simple timeout pattern": a goroutine sleeps and then sends   *)
(* on the buffered channel timeout; the select takes whichever of ch and   *)
(* timeout can be received from.                                           *)
(***************************************************************************)
\* The other programs' variables, which the snippet leaves alone.
exceptTimeout == <<oldVars, verCVars, deferVars, semVars, protVars, shadowVars, pumpVars>>

\* timeout := make(chan bool, 1)
TimeoutCap == 1

\* Faulty variant: the send waits for a receiver, as on an unbuffered channel.
CanSendUnbuffered(buf, cap, receiverWaiting) == receiverWaiting

\* A send on a channel goes ahead when the buffer has room, or when a
\* receiver is waiting at the channel.
CanSend(buf, cap, receiverWaiting) == Len(buf) < cap \/ receiverWaiting

TimeoutInit ==
    /\ toMain = "go"
    /\ toTimer = "none"
    /\ toBuf = <<>>
    /\ toSender = "none"

\* go func() { ... }()
TimeoutGo ==
    /\ prog = "timeout" /\ toMain = "go"
    /\ toMain' = "select"
    /\ toTimer' = "sleep"
    /\ UNCHANGED <<prog, exceptTimeout, toBuf, toSender>>

\* time.Sleep(1e9) returns.
TimerSleep ==
    /\ prog = "timeout" /\ toTimer = "sleep"
    /\ toTimer' = "send"
    /\ UNCHANGED <<prog, exceptTimeout, toMain, toBuf, toSender>>

\* timeout <- true: into the buffer, or handed to the select waiting at the
\* channel when the channel has no buffer.
TimerSend ==
    /\ prog = "timeout" /\ toTimer = "send"
    /\ CanSend(toBuf, TimeoutCap, toMain = "select")
    /\ IF Len(toBuf) < TimeoutCap
       THEN /\ toBuf' = Append(toBuf, TRUE)
            /\ toMain' = toMain
       ELSE /\ toBuf' = toBuf
            /\ toMain' = "gotTimeout"
    /\ toTimer' = "done"
    /\ UNCHANGED <<prog, exceptTimeout, toSender>>

\* Some other goroutine sends on ch; it may never do so.
ChSend ==
    /\ prog = "timeout" /\ toSender = "none"
    /\ toSender' = "ready"
    /\ UNCHANGED <<prog, exceptTimeout, toMain, toTimer, toBuf>>

\* case <-ch:
SelectCh ==
    /\ prog = "timeout" /\ toMain = "select"
    /\ toSender = "ready"
    /\ toSender' = "sent"
    /\ toMain' = "gotCh"
    /\ UNCHANGED <<prog, exceptTimeout, toTimer, toBuf>>

\* case <-timeout:
SelectTimeout ==
    /\ prog = "timeout" /\ toMain = "select"
    /\ toBuf # <<>>
    /\ toBuf' = Tail(toBuf)
    /\ toMain' = "gotTimeout"
    /\ UNCHANGED <<prog, exceptTimeout, toTimer, toSender>>

\* The steps of the timer goroutine.
TimerStep == TimerSleep \/ TimerSend

\* The steps of the goroutine that runs the select.
SelectStep == TimeoutGo \/ SelectCh \/ SelectTimeout

TimeoutNext ==
    \/ TimeoutGo
    \/ TimerSleep
    \/ TimerSend
    \/ ChSend
    \/ SelectCh
    \/ SelectTimeout

\* C17: the select completes, by the ch case or by the timeout case, even
\* when nothing is ever sent on ch; the timer goroutine's send finds room in
\* the buffer whenever it is reached, and the goroutine ends in both
\* outcomes, also after the select took the ch case and the value stays in
\* timeout.
Thm_C17 ==
    /\ (prog = "timeout") ~> (toMain \in {"gotCh", "gotTimeout"})
    /\ (prog = "timeout" /\ toSender = "none") ~> (toMain \in {"gotCh", "gotTimeout"})
    /\ (prog = "timeout") ~> (toTimer = "done")
    /\ (prog = "timeout" /\ toMain = "gotCh") ~> (toTimer = "done")
    /\ [](prog = "timeout" /\ toTimer = "send" => Len(toBuf) < TimeoutCap)
    /\ [](prog = "timeout" /\ toMain = "gotTimeout" => toTimer = "done")

\* C17 witness: the select took the ch case, the timer goroutine has ended
\* and its value is left in timeout.
Wit_C17 ==
    /\ prog = "timeout"
    /\ toMain = "gotCh"
    /\ toTimer = "done"
    /\ toBuf = <<TRUE>>

(***************************************************************************)
(* part_000, "Channel factory pattern": pump() makes an unbuffered         *)
(* channel, starts a goroutine that sends 0, 1, 2, ... on it and returns   *)
(* the channel; a consumer receives from it and may stop.                  *)
(***************************************************************************)
\* The other programs' variables, which the snippet leaves alone.
exceptPump == <<oldVars, verCVars, deferVars, semVars, protVars, shadowVars, timeoutVars>>

\* Bound on the number of values the consumer receives.
MaxRecv == 3

\* Faulty variant of the loop's post statement.
PumpIncrTwice(n) == n + 2

\* i++
PumpIncr(n) == n + 1

PumpInit ==
    /\ puCons = "call"
    /\ puProd = "none"
    /\ puI = 0
    /\ puGot = <<>>

\* The consumer calls pump(): the goroutine is started with i := 0 and goes
\* to its send; the channel is returned.
PumpCall ==
    /\ prog = "pump" /\ puCons = "call"
    /\ puProd' = "send"
    /\ puI' = 0
    /\ puCons' = "recv"
    /\ UNCHANGED <<prog, exceptPump, puGot>>

\* ch <- i meets the consumer's receive; the producer does i++ and is at
\* its send again.
PumpTransfer ==
    /\ prog = "pump" /\ puProd = "send"
    /\ SendProceeds(puCons)
    /\ Len(puGot) < MaxRecv
    /\ puGot' = Append(puGot, puI)
    /\ puI' = PumpIncr(puI)
    /\ UNCHANGED <<prog, exceptPump, puCons, puProd>>

\* The consumer leaves its loop (break, return or panic).
ConsumerStop ==
    /\ prog = "pump" /\ puCons = "recv"
    /\ puCons' = "stopped"
    /\ UNCHANGED <<prog, exceptPump, puProd, puI, puGot>>

PumpNext ==
    \/ PumpCall
    \/ PumpTransfer
    \/ ConsumerStop

\* C18: the values received from pump()'s channel are 0, 1, 2, ... in
\* order, without gap or repeat; once the consumer has stopped receiving,
\* the producer goroutine is at its send, cannot take a step, and stays so
\* for ever: it never ends.
Thm_C18 ==
    /\ [](prog = "pump" => \A n \in 1..Len(puGot) : puGot[n] = n - 1)
    /\ [](prog = "pump" /\ puCons # "call" => puProd = "send")
    /\ [](prog = "pump" /\ puCons = "stopped" => ~ENABLED PumpTransfer)
    /\ [][prog = "pump" /\ puCons = "stopped"
            => /\ puCons' = "stopped"
               /\ puProd' = puProd
               /\ puI' = puI
               /\ puGot' = puGot]_vars

\* C18 witness: the consumer received 0 and 1 and stopped; the producer is
\* at its send of 2.
Wit_C18 ==
    /\ prog = "pump"
    /\ puCons = "stopped"
    /\ puGot = <<0, 1>>
    /\ puProd = "send"
    /\ puI = 2

Programs == {"ex1", "template", "http", "versionB", "versionC", "deferLoop", "semaphore", "protect", "shadow", "timeout", "pump"}

Init ==
    /\ prog \in Programs
    /\ SortInit
    /\ TemplateInit
    /\ HttpInit
    /\ ClosureInit
    /\ VersionCInit
    /\ DeferInit
    /\ SemInit
    /\ ProtectInit
    /\ ShadowInit
    /\ TimeoutInit
    /\ PumpInit

Next ==
    \/ SortNext
    \/ TemplateNext
    \/ HttpNext
    \/ ClosureNext
    \/ VersionCNext
    \/ DeferNext
    \/ SemNext
    \/ ProtectNext
    \/ ShadowNext
    \/ TimeoutNext
    \/ PumpNext

Spec == Init /\ [][Next]_vars

\* The scheduler runs every goroutine that can take a step, and the work a
\* goroutine does between its channel operations ends.
FairSpec ==
    /\ Spec
    /\ WF_vars(SortNext)
    /\ WF_vars(SemNext)
    /\ WF_vars(TimerStep)
    /\ WF_vars(SelectStep)

\* C16: every call of Sort returns, whatever the collection, so each demo
\* reaches its IsSorted check and then its print, and main runs ints, then
\* strings, then days, and ends.
Thm_C16 ==
    /\ (prog = "ex1" /\ spc = "sort") ~> (spc = "check")
    /\ (prog = "ex1" /\ spc = "check") ~> (spc = "print")
    /\ (prog = "ex1" /\ spc = "print") ~> (spc = "idle")
    /\ (prog = "ex1" /\ mainpc = "ints") ~> (mainpc = "strings")
    /\ (prog = "ex1" /\ mainpc = "strings") ~> (mainpc = "days")
    /\ (prog = "ex1" /\ mainpc = "days") ~> (mainpc = "exit")
    /\ [][prog = "ex1" /\ mainpc' # mainpc
            => /\ spc = "print"
               /\ <<mainpc, mainpc'>> \in {<<"ints", "strings">>, <<"strings", "days">>,
                                          <<"days", "exit">>}]_vars

\* C16 witness: main has run the three demos, the last one has printed the
\* sorted days of the program.
Wit_C16 ==
    /\ prog = "ex1"
    /\ mainpc = "exit"
    /\ Len(printed) = Len(DaysData)
    /\ \A n \in 1..Len(printed) : printed[n].num = n - 1

=============================================================================
